---- MODULE Spec2Model ----
(***************************************************************************)
(* Model of api_examples/get_conversion_upload_summary.py: the entry       *)
(* point (argument parsing, client loading, the guarded call of main),     *)
(* main (get_service, search_stream, the print loops) and the two          *)
(* GoogleAdsException handlers.  The Google Ads client library and         *)
(* argparse are the environment: what they return or raise is chosen       *)
(* nondeterministically from bounded sets.                                 *)
(*                                                                         *)
(* A printed line is a record [text, args]: text is the fixed part of the  *)
(* f-string, args the interpolated values in order.                        *)
(***************************************************************************)
EXTENDS Integers, Sequences, FiniteSets

VARIABLES
    pc,           \* position of the interpreter in the script
    argv,         \* the command line (sys.argv[1:])
    customer_id,  \* args.customer_id once parsed
    out,          \* standard output: the sequence of lines printed so far
    exit_status,  \* process exit status, -1 while the process runs
    termination,  \* "running" | "normal" | "sys_exit" | "uncaught"
    raised,       \* the exception in flight (NoExc when none)
    failure,      \* the first exception the environment raised, and where
    stream,       \* "none" | "open" | "exhausted" | "failed"
    received,     \* the batches the stream has yielded, in order
    calls         \* how often each external operation has been called

vars == <<pc, argv, customer_id, out, exit_status, termination, raised,
          failure, stream, received, calls>>

----------------------------------------------------------------------------
(* Bounds of the environment                                               *)

MaxBatches == 2   \* batches a response holds at most
MaxRows    == 2   \* rows a response holds at most, over all its batches
MaxItems   == 2   \* alerts + daily summaries + job summaries of a response
MaxErrors  == 2   \* errors a GoogleAdsException carries at most
MaxFields  == 2   \* field-path elements a GoogleAdsException holds at most

Numerals == <<"1", "2", "3", "4", "5", "6", "7", "8", "9">>

Str(i) == Numerals[i]

RECURSIVE Concat(_)
Concat(ss) == IF ss = <<>> THEN <<>> ELSE Head(ss) \o Concat(Tail(ss))

RECURSIVE SumSeq(_)
SumSeq(ns) == IF ns = <<>> THEN 0 ELSE Head(ns) + SumSeq(Tail(ns))

Line(text, args) == [text |-> text, args |-> args]

----------------------------------------------------------------------------
(* Command line                                                            *)

NoCustomer == "<unset>"

CustomerIds == {"1234567890"}

Argvs ==
    {<<>>, <<"-c">>, <<"-x">>, <<"-h">>}
        \cup {<<"-c", c>> : c \in CustomerIds}
        \cup {<<"--customer_id", c>> : c \in CustomerIds}

\* A variant of ParseArgs in which the option is not required.
ParseArgsOptional(av) ==
    IF Len(av) = 2 /\ av[1] \in {"-c", "--customer_id"}
    THEN [outcome |-> "parsed", customer_id |-> av[2], code |-> 0]
    ELSE IF Len(av) = 1 /\ av[1] \in {"-h", "--help"}
    THEN [outcome |-> "help", customer_id |-> NoCustomer, code |-> 0]
    ELSE IF av = <<>>
    THEN [outcome |-> "parsed", customer_id |-> NoCustomer, code |-> 0]
    ELSE [outcome |-> "error", customer_id |-> NoCustomer, code |-> 2]

\* parser.parse_args() with the one required option -c/--customer_id and
\* argparse's automatic -h/--help.
ParseArgs(av) ==
    IF Len(av) = 2 /\ av[1] \in {"-c", "--customer_id"}
    THEN [outcome |-> "parsed", customer_id |-> av[2], code |-> 0]
    ELSE IF Len(av) = 1 /\ av[1] \in {"-h", "--help"}
    THEN [outcome |-> "help", customer_id |-> NoCustomer, code |-> 0]
    ELSE [outcome |-> "error", customer_id |-> NoCustomer, code |-> 2]

----------------------------------------------------------------------------
(* The response of GoogleAdsService.search_stream                          *)

Alert(i) ==
    [error |-> [conversion_upload_error |-> [name |-> "ALERT_" \o Str(i)]]]

DailySummary(i) ==
    [upload_date      |-> "2024-01-0" \o Str(i),
     successful_count |-> "1" \o Str(i),
     failed_count     |-> "2" \o Str(i)]

JobSummary(i) ==
    [job_id           |-> "job-" \o Str(i),
     successful_count |-> "3" \o Str(i),
     failed_count     |-> "4" \o Str(i),
     upload_date      |-> "2024-02-0" \o Str(i)]

\* The idx-th row of a response, with a alerts, d daily summaries and
\* j job summaries; scalar values are told apart by the row's index.
Row(idx, a, d, j) ==
    [offline_conversion_upload_client_summary |->
        [resource_name          |-> "summaries/" \o Str(idx),
         status                 |-> "STATUS_" \o Str(idx),
         total_event_count      |-> "10" \o Str(idx),
         successful_event_count |-> "9" \o Str(idx),
         success_rate           |-> "0.9" \o Str(idx),
         last_upload_date_time  |-> "2024-03-0" \o Str(idx),
         alerts                 |-> [i \in 1..a |-> Alert(i)],
         daily_summaries        |-> [i \in 1..d |-> DailySummary(i)],
         job_summaries          |-> [i \in 1..j |-> JobSummary(i)]]]

ItemsOfRow(row) ==
    LET summary == row.offline_conversion_upload_client_summary
    IN  Len(summary.alerts) + Len(summary.daily_summaries)
            + Len(summary.job_summaries)

RowsAt(idx, k) ==
    {Row(idx, a, d, j) : <<a, d, j>> \in
        {t \in (0..k) \X (0..k) \X (0..k) : t[1] + t[2] + t[3] <= k}}

\* The row sequences of at most n rows and at most k nested items whose
\* first row is the first-th row of the response.
RECURSIVE RowSeqs(_, _, _)
RowSeqs(first, n, k) ==
    {<<>>} \cup
    (IF n = 0 THEN {}
     ELSE UNION {{<<r>> \o s : s \in RowSeqs(first + 1, n - 1, k - ItemsOfRow(r))}
                    : r \in RowsAt(first, k)})

RowsOf(batches) == Concat([i \in 1..Len(batches) |-> batches[i].results])

ItemsOf(rows) == SumSeq([i \in 1..Len(rows) |-> ItemsOfRow(rows[i])])

\* The batches the stream may yield next, given those it has yielded.
NextBatches(got) ==
    LET rows == RowsOf(got)
    IN  {[results |-> rs] :
            rs \in RowSeqs(Len(rows) + 1, MaxRows - Len(rows),
                           MaxItems - ItemsOf(rows))}

----------------------------------------------------------------------------
(* Exceptions                                                              *)

NoExc == [kind |-> "none", request_id |-> "", status |-> "",
          errors |-> <<>>, code |-> 0]

OtherExc == [kind |-> "Other", request_id |-> "", status |-> "",
             errors |-> <<>>, code |-> 0]

SystemExit(code) == [kind |-> "SystemExit", request_id |-> "", status |-> "",
                     errors |-> <<>>, code |-> code]

NoLocation == [present |-> FALSE, field_path_elements |-> <<>>]

\* The i-th error of a failure; it carries a location exactly when it has
\* field-path elements (an unset message field and an empty one are the same
\* to "if error.location:").
Error(i, nf) ==
    [message  |-> "message " \o Str(i),
     location |->
        IF nf = 0 THEN NoLocation
        ELSE [present |-> TRUE,
              field_path_elements |->
                  [e \in 1..nf |-> [field_name |-> "field_" \o Str(e)]]]]

\* The error lists of at most n errors and at most k field-path elements
\* whose first error is the first-th error of the failure.
RECURSIVE ErrorSeqsFrom(_, _, _)
ErrorSeqsFrom(first, n, k) ==
    {<<>>} \cup
    (IF n = 0 THEN {}
     ELSE UNION {{<<Error(first, nf)>> \o s : s \in ErrorSeqsFrom(first + 1, n - 1, k - nf)}
                    : nf \in 0..k})

ErrorSeqs == ErrorSeqsFrom(1, MaxErrors, MaxFields)

RequestIds == {"req-1", "req-2"}

StatusNames == {"INVALID_ARGUMENT", "PERMISSION_DENIED", "UNAUTHENTICATED"}

GoogleAdsExceptions ==
    {[kind |-> "GoogleAdsException", request_id |-> r, status |-> s,
      errors |-> e, code |-> 0]
        : r \in RequestIds, s \in StatusNames, e \in ErrorSeqs}

\* What the one request of a run can fail with.
RemoteFailures ==
    {ex \in GoogleAdsExceptions :
        ex.request_id = "req-1" /\ ex.status = "INVALID_ARGUMENT"}

Raisable == RemoteFailures \cup {OtherExc}

----------------------------------------------------------------------------
(* Printing                                                                *)

HeaderLine == Line("Offline conversion upload client summary:", <<>>)

AlertLines(alerts) ==
    [i \in 1..Len(alerts) |->
        Line("  Error: ", <<alerts[i].error.conversion_upload_error.name>>)]

DailySummaryLines(daily_summaries) ==
    Concat([i \in 1..Len(daily_summaries) |->
        <<Line("  Date: ", <<daily_summaries[i].upload_date>>),
          Line("  Successful Count: ", <<daily_summaries[i].successful_count>>),
          Line("  Failed Count: ", <<daily_summaries[i].failed_count>>)>>])

JobSummaryLines(job_summaries) ==
    Concat([i \in 1..Len(job_summaries) |->
        <<Line("  Job ID: ", <<job_summaries[i].job_id>>),
          Line("  Successful Count: ", <<job_summaries[i].successful_count>>),
          Line("  Failed Count: ", <<job_summaries[i].failed_count>>),
          Line("  Upload Time: ", <<job_summaries[i].upload_date>>)>>])

\* A variant of RowLines that prints a section line only for a non-empty
\* collection.
RowLinesSkipEmpty(row) ==
    LET summary == row.offline_conversion_upload_client_summary
    IN  <<Line("Resource Name: ", <<summary.resource_name>>),
          Line("Status: ", <<summary.status>>),
          Line("Total Event Count: ", <<summary.total_event_count>>),
          Line("Successful Event Count: ", <<summary.successful_event_count>>),
          Line("Success Rate: ", <<summary.success_rate>>),
          Line("Last Upload Time: ", <<summary.last_upload_date_time>>)>>
        \o (IF summary.alerts = <<>> THEN <<>> ELSE <<Line("Alerts:", <<>>)>>)
        \o AlertLines(summary.alerts)
        \o (IF summary.daily_summaries = <<>> THEN <<>>
            ELSE <<Line("Daily Summaries:", <<>>)>>)
        \o DailySummaryLines(summary.daily_summaries)
        \o (IF summary.job_summaries = <<>> THEN <<>>
            ELSE <<Line("Job Summaries:", <<>>)>>)
        \o JobSummaryLines(summary.job_summaries)

\* The body of "for row in batch.results".
RowLines(row) ==
    LET summary == row.offline_conversion_upload_client_summary
    IN  <<Line("Resource Name: ", <<summary.resource_name>>),
          Line("Status: ", <<summary.status>>),
          Line("Total Event Count: ", <<summary.total_event_count>>),
          Line("Successful Event Count: ", <<summary.successful_event_count>>),
          Line("Success Rate: ", <<summary.success_rate>>),
          Line("Last Upload Time: ", <<summary.last_upload_date_time>>),
          Line("Alerts:", <<>>)>>
        \o AlertLines(summary.alerts)
        \o <<Line("Daily Summaries:", <<>>)>>
        \o DailySummaryLines(summary.daily_summaries)
        \o <<Line("Job Summaries:", <<>>)>>
        \o JobSummaryLines(summary.job_summaries)

\* A variant of BatchLines that reports a batch without rows.
BatchLinesPlaceholder(batch) ==
    IF batch.results = <<>> THEN <<Line("No results.", <<>>)>>
    ELSE Concat([i \in 1..Len(batch.results) |-> RowLines(batch.results[i])])

\* The body of "for batch in stream".
BatchLines(batch) ==
    Concat([i \in 1..Len(batch.results) |-> RowLines(batch.results[i])])

\* A variant of InnerErrorLines that prints the first field-path element only.
InnerErrorLinesFirstField(error) ==
    <<Line("\tError with message ", <<error.message>>)>>
    \o (IF error.location.present
        THEN <<Line("\t\tOn field: ",
                    <<error.location.field_path_elements[1].field_name>>)>>
        ELSE <<>>)

\* The handler inside main.
InnerErrorLines(error) ==
    <<Line("\tError with message ", <<error.message>>)>>
    \o (IF error.location.present
        THEN [i \in 1..Len(error.location.field_path_elements) |->
                Line("\t\tOn field: ",
                     <<error.location.field_path_elements[i].field_name>>)]
        ELSE <<>>)

InnerReport(ex) ==
    <<Line("Request with ID ", <<ex.request_id, ex.status>>)>>
    \o Concat([i \in 1..Len(ex.errors) |-> InnerErrorLines(ex.errors[i])])

\* A variant of InnerCatches for "except Exception".
InnerCatchesAny(ex) == ex.kind \in {"GoogleAdsException", "Other"}

InnerCatches(ex) == ex.kind = "GoogleAdsException"

\* A variant of InnerHandlerEnd that re-raises instead of exiting.
InnerHandlerReraise(ex) == ex

InnerHandlerEnd(ex) == SystemExit(1)

\* A variant of OuterErrorLines that leaves the location out.
OuterErrorLinesNoFields(error) ==
    <<Line("\tError with message ", <<error.message>>)>>

\* The handler at the entry point.
OuterErrorLines(error) ==
    <<Line("\tError with message ", <<error.message>>)>>
    \o (IF error.location.present
        THEN [i \in 1..Len(error.location.field_path_elements) |->
                Line("\t\tOn field: ",
                     <<error.location.field_path_elements[i].field_name>>)]
        ELSE <<>>)

OuterReport(ex) ==
    <<Line("Request with ID ", <<ex.request_id, ex.status>>)>>
    \o Concat([i \in 1..Len(ex.errors) |-> OuterErrorLines(ex.errors[i])])

OuterCatches(ex) == ex.kind = "GoogleAdsException"

\* A variant of OuterHandlerEnd that exits without a status.
OuterHandlerEndZero(ex) == SystemExit(0)

OuterHandlerEnd(ex) == SystemExit(1)

HelpLine == Line("usage: ", <<"-h", "-c CUSTOMER_ID">>)

----------------------------------------------------------------------------
(* The program                                                             *)

NoFailure == [ex |-> NoExc, site |-> "none"]

Init ==
    /\ pc = "parse_args"
    /\ argv \in Argvs
    /\ customer_id = NoCustomer
    /\ out = <<>>
    /\ exit_status = -1
    /\ termination = "running"
    /\ raised = NoExc
    /\ failure = NoFailure
    /\ stream = "none"
    /\ received = <<>>
    /\ calls = [load_from_storage |-> 0, get_service |-> 0,
                search_stream |-> 0, next |-> 0]

Called(op) == [calls EXCEPT ![op] = @ + 1]

\* args = parser.parse_args(): a usage error and -h both leave through
\* SystemExit, raised outside the entry point's try statement.
ParseArguments ==
    /\ pc = "parse_args"
    /\ LET r == ParseArgs(argv)
       IN  /\ customer_id' = r.customer_id
           /\ pc' = IF r.outcome = "parsed" THEN "load_client" ELSE "unwind_top"
           /\ raised' = IF r.outcome = "parsed" THEN NoExc ELSE SystemExit(r.code)
           /\ out' = IF r.outcome = "help" THEN Append(out, HelpLine) ELSE out
    /\ UNCHANGED <<argv, exit_status, termination, failure, stream, received,
                   calls>>

\* googleads_client = GoogleAdsClient.load_from_storage(version="v22")
LoadClient ==
    /\ pc = "load_client"
    /\ calls' = Called("load_from_storage")
    /\ \/ /\ pc' = "get_service"
          /\ UNCHANGED <<raised, failure>>
       \/ /\ pc' = "unwind_top"
          /\ raised' = OtherExc
          /\ failure' = [ex |-> OtherExc, site |-> "load_from_storage"]
    /\ UNCHANGED <<argv, customer_id, out, exit_status, termination, stream,
                   received>>

\* main, first statement: ga_service = client.get_service(...), before the
\* try statement of main and inside the one of the entry point.
GetService ==
    /\ pc = "get_service"
    /\ calls' = Called("get_service")
    /\ \/ /\ pc' = "search_stream"
          /\ UNCHANGED <<raised, failure>>
       \/ \E ex \in Raisable :
             /\ pc' = "unwind_entry"
             /\ raised' = ex
             /\ failure' = [ex |-> ex, site |-> "get_service"]
    /\ UNCHANGED <<argv, customer_id, out, exit_status, termination, stream,
                   received>>

\* stream = ga_service.search_stream(customer_id=customer_id, query=query)
SearchStream ==
    /\ pc = "search_stream"
    /\ calls' = Called("search_stream")
    /\ \/ /\ pc' = "print_header"
          /\ stream' = "open"
          /\ UNCHANGED <<raised, failure>>
       \/ \E ex \in Raisable :
             /\ pc' = "unwind_main"
             /\ raised' = ex
             /\ failure' = [ex |-> ex, site |-> "search_stream"]
             /\ UNCHANGED stream
    /\ UNCHANGED <<argv, customer_id, out, exit_status, termination, received>>

\* print("Offline conversion upload client summary:")
PrintHeader ==
    /\ pc = "print_header"
    /\ out' = Append(out, HeaderLine)
    /\ pc' = "for_batch"
    /\ UNCHANGED <<argv, customer_id, exit_status, termination, raised,
                   failure, stream, received, calls>>

\* for batch in stream: one step of the iterator, which yields a batch,
\* ends, or raises.
NextBatch ==
    /\ pc = "for_batch"
    /\ calls' = Called("next")
    /\ \/ /\ Len(received) < MaxBatches
          /\ \E batch \in NextBatches(received) :
                received' = Append(received, batch)
          /\ pc' = "for_row"
          /\ UNCHANGED <<raised, failure, stream>>
       \/ /\ pc' = "main_return"
          /\ stream' = "exhausted"
          /\ UNCHANGED <<raised, failure, received>>
       \/ \E ex \in Raisable :
             /\ pc' = "unwind_main"
             /\ raised' = ex
             /\ failure' = [ex |-> ex, site |-> "stream"]
             /\ stream' = "failed"
             /\ UNCHANGED received
    /\ UNCHANGED <<argv, customer_id, out, exit_status, termination>>

\* for row in batch.results: the prints of every row of the batch.
PrintRows ==
    /\ pc = "for_row"
    /\ out' = out \o BatchLines(received[Len(received)])
    /\ pc' = "for_batch"
    /\ UNCHANGED <<argv, customer_id, exit_status, termination, raised,
                   failure, stream, received, calls>>

\* main returns, the entry point's try statement ends, the script ends.
MainReturn ==
    /\ pc = "main_return"
    /\ pc' = "done"
    /\ exit_status' = 0
    /\ termination' = "normal"
    /\ UNCHANGED <<argv, customer_id, out, raised, failure, stream, received,
                   calls>>

\* A variant of InnerExcept that queries again after a failure.
InnerExceptRetry ==
    /\ pc = "unwind_main"
    /\ IF InnerCatches(raised)
       THEN /\ out' = out \o InnerReport(raised)
            /\ raised' = NoExc
            /\ pc' = "search_stream"
       ELSE /\ pc' = "unwind_entry"
            /\ UNCHANGED <<out, raised>>
    /\ UNCHANGED <<argv, customer_id, exit_status, termination, failure,
                   stream, received, calls>>

\* A variant of InnerExcept that goes on with the next batch after a failure.
InnerExceptResume ==
    /\ pc = "unwind_main"
    /\ IF InnerCatches(raised)
       THEN /\ out' = out \o InnerReport(raised)
            /\ raised' = NoExc
            /\ pc' = IF stream = "failed" THEN "for_batch" ELSE "main_return"
       ELSE /\ pc' = "unwind_entry"
            /\ UNCHANGED <<out, raised>>
    /\ UNCHANGED <<argv, customer_id, exit_status, termination, failure,
                   stream, received, calls>>

\* An exception leaves the try block of main: "except GoogleAdsException"
\* prints the report and calls sys.exit(1); anything else passes through.
InnerExcept ==
    /\ pc = "unwind_main"
    /\ pc' = "unwind_entry"
    /\ IF InnerCatches(raised)
       THEN /\ out' = out \o InnerReport(raised)
            /\ raised' = InnerHandlerEnd(raised)
       ELSE UNCHANGED <<out, raised>>
    /\ UNCHANGED <<argv, customer_id, exit_status, termination, failure,
                   stream, received, calls>>

\* An exception leaves main into the try statement of the entry point.
OuterExcept ==
    /\ pc = "unwind_entry"
    /\ pc' = "unwind_top"
    /\ IF OuterCatches(raised)
       THEN /\ out' = out \o OuterReport(raised)
            /\ raised' = OuterHandlerEnd(raised)
       ELSE UNCHANGED <<out, raised>>
    /\ UNCHANGED <<argv, customer_id, exit_status, termination, failure,
                   stream, received, calls>>

\* An exception reaches the interpreter: SystemExit ends the process with
\* its code, any other exception with a traceback and status 1.
ProcessExit ==
    /\ pc = "unwind_top"
    /\ pc' = "done"
    /\ IF raised.kind = "SystemExit"
       THEN /\ exit_status' = raised.code
            /\ termination' = "sys_exit"
       ELSE /\ exit_status' = 1
            /\ termination' = "uncaught"
    /\ UNCHANGED <<argv, customer_id, out, raised, failure, stream, received,
                   calls>>

Next ==
    \/ ParseArguments
    \/ LoadClient
    \/ GetService
    \/ SearchStream
    \/ PrintHeader
    \/ NextBatch
    \/ PrintRows
    \/ MainReturn
    \/ InnerExcept
    \/ OuterExcept
    \/ ProcessExit

Spec == Init /\ [][Next]_vars

----------------------------------------------------------------------------
(* The two handlers on the same exception: the program right after a       *)
(* GoogleAdsException was raised by search_stream (inside the try block of *)
(* main) or by get_service (before it), for every exception value.         *)

InitH ==
    /\ \E c \in CustomerIds : argv = <<"-c", c>> /\ customer_id = c
    /\ out = <<>>
    /\ exit_status = -1
    /\ termination = "running"
    /\ stream = "none"
    /\ received = <<>>
    /\ raised \in GoogleAdsExceptions
    /\ \/ /\ pc = "unwind_main"
          /\ failure = [ex |-> raised, site |-> "search_stream"]
          /\ calls = [load_from_storage |-> 1, get_service |-> 1,
                      search_stream |-> 1, next |-> 0]
       \/ /\ pc = "unwind_entry"
          /\ failure = [ex |-> raised, site |-> "get_service"]
          /\ calls = [load_from_storage |-> 1, get_service |-> 1,
                      search_stream |-> 0, next |-> 0]

NextH == InnerExcept \/ OuterExcept \/ ProcessExit

SpecHandlers == InitH /\ [][NextH]_vars

----------------------------------------------------------------------------
(* Properties                                                              *)

Done == pc = "done"

IsRequestLine(l) == l.text = "Request with ID "

RequestLines == {i \in 1..Len(out) : IsRequestLine(out[i])}

RemoteFailure(sites) ==
    failure.ex.kind = "GoogleAdsException" /\ failure.site \in sites

\* The block of one row as the contract states it, line by line.
ExpectedBlock(summary) ==
    LET A == Len(summary.alerts)
        D == Len(summary.daily_summaries)
        J == Len(summary.job_summaries)
    IN  [n \in 1..(9 + A + 3 * D + 4 * J) |->
            IF n = 1 THEN Line("Resource Name: ", <<summary.resource_name>>)
            ELSE IF n = 2 THEN Line("Status: ", <<summary.status>>)
            ELSE IF n = 3
            THEN Line("Total Event Count: ", <<summary.total_event_count>>)
            ELSE IF n = 4
            THEN Line("Successful Event Count: ", <<summary.successful_event_count>>)
            ELSE IF n = 5 THEN Line("Success Rate: ", <<summary.success_rate>>)
            ELSE IF n = 6
            THEN Line("Last Upload Time: ", <<summary.last_upload_date_time>>)
            ELSE IF n = 7 THEN Line("Alerts:", <<>>)
            ELSE IF n <= 7 + A
            THEN Line("  Error: ",
                      <<summary.alerts[n - 7].error.conversion_upload_error.name>>)
            ELSE IF n = 8 + A THEN Line("Daily Summaries:", <<>>)
            ELSE IF n <= 8 + A + 3 * D
            THEN LET m == n - (9 + A)
                     ds == summary.daily_summaries[(m \div 3) + 1]
                 IN  IF m % 3 = 0 THEN Line("  Date: ", <<ds.upload_date>>)
                     ELSE IF m % 3 = 1
                     THEN Line("  Successful Count: ", <<ds.successful_count>>)
                     ELSE Line("  Failed Count: ", <<ds.failed_count>>)
            ELSE IF n = 9 + A + 3 * D THEN Line("Job Summaries:", <<>>)
            ELSE LET m == n - (10 + A + 3 * D)
                     js == summary.job_summaries[(m \div 4) + 1]
                 IN  IF m % 4 = 0 THEN Line("  Job ID: ", <<js.job_id>>)
                     ELSE IF m % 4 = 1
                     THEN Line("  Successful Count: ", <<js.successful_count>>)
                     ELSE IF m % 4 = 2
                     THEN Line("  Failed Count: ", <<js.failed_count>>)
                     ELSE Line("  Upload Time: ", <<js.upload_date>>)]

RECURSIVE ExpectedBlocks(_)
ExpectedBlocks(rows) ==
    IF rows = <<>> THEN <<>>
    ELSE ExpectedBlock(Head(rows).offline_conversion_upload_client_summary)
            \o ExpectedBlocks(Tail(rows))

\* The failure report as the contract states it, error by error.
RECURSIVE ExpectedFieldLines(_)
ExpectedFieldLines(elements) ==
    IF elements = <<>> THEN <<>>
    ELSE <<Line("\t\tOn field: ", <<Head(elements).field_name>>)>>
            \o ExpectedFieldLines(Tail(elements))

RECURSIVE ExpectedErrorLines(_)
ExpectedErrorLines(errors) ==
    IF errors = <<>> THEN <<>>
    ELSE <<Line("\tError with message ", <<Head(errors).message>>)>>
            \o (IF Head(errors).location.present
                THEN ExpectedFieldLines(Head(errors).location.field_path_elements)
                ELSE <<>>)
            \o ExpectedErrorLines(Tail(errors))

ExpectedReport(ex) ==
    <<Line("Request with ID ", <<ex.request_id, ex.status>>)>>
        \o ExpectedErrorLines(ex.errors)

\* C1: a run that raises nothing prints the header once and then the block
\* of every row received, batch by batch and row by row, each block being
\* the 6 scalar lines and the three sections (9 + A + 3*D + 4*J lines), and
\* exits with status 0.
C1_SuccessOutput ==
    (Done /\ termination = "normal") =>
        /\ out = <<HeaderLine>> \o ExpectedBlocks(RowsOf(received))
        /\ exit_status = 0

C1_Witness ==
    /\ Done /\ termination = "normal"
    /\ Len(received) = 2
    /\ Len(RowsOf(received)) = 2
    /\ Len(received[1].results) = 1
    /\ ItemsOf(RowsOf(received)) = MaxItems
    /\ Len(RowsOf(received)[2].offline_conversion_upload_client_summary.job_summaries) = 1
    /\ Len(RowsOf(received)[1].offline_conversion_upload_client_summary.alerts) = 1

\* C2: a successful response without rows gives the header line as the
\* whole output, and exit status 0.
C2_EmptyResponse ==
    (Done /\ termination = "normal" /\ RowsOf(received) = <<>>) =>
        /\ out = <<Line("Offline conversion upload client summary:", <<>>)>>
        /\ exit_status = 0

C2_Witness ==
    /\ Done /\ termination = "normal"
    /\ Len(received) = 2
    /\ RowsOf(received) = <<>>

\* C3: when the remote query raises GoogleAdsException, the output ends with
\* the failure report (one request line, then per error in list order its
\* message line followed by one "On field" line per field-path element
\* exactly when it has a location), printed once, and the exit status is 1.
C3_FailureReport ==
    (Done /\ RemoteFailure({"search_stream", "stream"})) =>
        /\ Cardinality(RequestLines) = 1
        /\ \A i \in RequestLines :
              SubSeq(out, i, Len(out)) = ExpectedReport(failure.ex)
        /\ exit_status = 1

C3_Witness ==
    /\ Done /\ RemoteFailure({"search_stream"})
    /\ Len(failure.ex.errors) = 2
    /\ failure.ex.errors[1].location.present
    /\ Len(failure.ex.errors[1].location.field_path_elements) = 2
    /\ ~failure.ex.errors[2].location.present

\* C4: the client is loaded and the remote operations are called only after
\* the arguments were parsed with a customer id; without one the run ends
\* before any of them.
C4_ParseBeforeCalls ==
    (calls.load_from_storage + calls.get_service + calls.search_stream
        + calls.next > 0) =>
        /\ customer_id \in CustomerIds
        /\ Len(argv) = 2
        /\ argv[2] = customer_id

C4_Witness ==
    /\ Done
    /\ argv = <<>>
    /\ exit_status = 2
    /\ calls.load_from_storage = 0
    /\ calls.search_stream = 0

\* C5: search_stream is called at most once in a run, whatever its outcome.
C5_AtMostOneQuery == calls.search_stream <= 1

C5_Witness ==
    /\ Done /\ RemoteFailure({"stream"})
    /\ calls.search_stream = 1
    /\ Len(received) = 1

C7_OtherPropagates ==
    (failure.ex.kind = "Other"
        /\ failure.site \in {"get_service", "search_stream", "stream"}) =>
        /\ RequestLines = {}
        /\ raised = failure.ex
        /\ termination \in {"running", "uncaught"}
        /\ Done => termination = "uncaught"

C7_Witness ==
    /\ Done
    /\ failure.ex.kind = "Other"
    /\ failure.site = "stream"
    /\ Len(RowsOf(received)) > 0

\* C8: on the same GoogleAdsException the handler inside main and the
\* handler at the entry point print the same lines and end with the same
\* exit status 1: what either prints is what the other one's code gives.
C8_SameHandling ==
    (Done /\ RemoteFailure({"search_stream", "get_service"})
          /\ received = <<>>) =>
        /\ exit_status = 1
        /\ failure.site = "search_stream" => out = OuterReport(failure.ex)
        /\ failure.site = "get_service" => out = InnerReport(failure.ex)

C8_Witness ==
    /\ Done /\ RemoteFailure({"get_service"})
    /\ failure.ex.request_id = "req-2"
    /\ Len(failure.ex.errors) = 2
    /\ failure.ex.errors[2].location.present
    /\ Len(out) = 4

\* C9: the failure report is printed at most once; the handler at the entry
\* point sees a GoogleAdsException only when get_service raised it, never
\* after the handler inside main has run.
C9_ReportOnce ==
    /\ Cardinality(RequestLines) <= 1
    /\ (pc = "unwind_entry" /\ OuterCatches(raised)) =>
          (failure.site = "get_service" /\ RequestLines = {})
    /\ (Done /\ RemoteFailure({"search_stream", "stream"})) =>
          (raised.kind = "SystemExit" /\ termination = "sys_exit")

C9_Witness ==
    /\ pc = "unwind_top"
    /\ RemoteFailure({"stream"})
    /\ raised.kind = "SystemExit"
    /\ Cardinality(RequestLines) = 1

\* C10: the stream is consumed to completion or aborted on the first
\* GoogleAdsException.  Raised by the search_stream call, the output is the
\* report alone; raised while fetching a batch, the output is the header,
\* the blocks of the rows of the batches received before, then the report;
\* nothing follows the report and no batch is fetched after the failure.
C10_AbortOnFailure ==
    /\ (Done /\ RemoteFailure({"search_stream"})) =>
          out = ExpectedReport(failure.ex)
    /\ (Done /\ RemoteFailure({"stream"})) =>
          out = <<HeaderLine>> \o ExpectedBlocks(RowsOf(received))
                    \o ExpectedReport(failure.ex)
    /\ \A i \in RequestLines : \A j \in (i + 1)..Len(out) :
          out[j].text \in {"\tError with message ", "\t\tOn field: "}
    /\ failure.site = "stream" => calls.next = Len(received) + 1
    /\ failure.site = "search_stream" => (calls.next = 0 /\ stream = "none")
    /\ (Done /\ termination = "normal") =>
          (stream = "exhausted" /\ calls.next = Len(received) + 1)

C10_Witness ==
    /\ Done /\ RemoteFailure({"stream"})
    /\ Len(received) = 2
    /\ Len(RowsOf(received)) = 2
    /\ Len(failure.ex.errors) = 1

====
